---- MODULE Spec2Model ----
(***************************************************************************)
(* Verification model of the Reflexo-V3 appointment back end:              *)
(*   - AppointmentService (appointments_status/services/                  *)
(*     appointment_service.py): create, get_by_id, update, delete,         *)
(*     list_all, get_by_date_range, get_completed_appointments,            *)
(*     get_pending_appointments, check_availability;                       *)
(*   - AppointmentStatusViewSet (appointments_status/views/                *)
(*     appointment_status.py): get_queryset, destroy, restore,             *)
(*     all_including_deleted;                                              *)
(*   - the data migration 0011_migrate_diu_type_to_fk.py.                  *)
(* The relational store is modelled as tables (sequences indexed by the    *)
(* auto-increment primary key).  Every service method is one action that   *)
(* reads a request and leaves the Response it returns in `response`.       *)
(***************************************************************************)
EXTENDS Integers, Sequences, FiniteSets, TLC

VARIABLES
    appointments,   \* table Appointment: id -> row
    tickets,        \* table Ticket: id -> row
    statuses,       \* table AppointmentStatus: id -> row
    today,          \* timezone.now().date(), as a day number
    request,        \* the call being served (operation and arguments)
    response,       \* what the call returned (or raised)
    histories,      \* table histories: id -> diu_type_id column (text)
    diu_types,      \* table DIUType: id -> name
    runs,           \* number of times the forward migration has run
    callers         \* the concurrent callers that check availability, then create

vars == <<appointments, tickets, statuses, today, request, response,
          histories, diu_types, runs, callers>>

storeVars == <<appointments, tickets, statuses, today>>
migVars == <<histories, diu_types, runs>>

----------------------------------------------------------------------------
(* Bounds of the model *)

MaxAppts == 2       \* rows of the Appointment table
MaxDay == 2         \* calendar days are 0..MaxDay
SlotsPerDay == 3    \* times of day are 0..SlotsPerDay-1
MaxPage == 2        \* page numbers 0..MaxPage, page sizes 1..MaxPage
MaxRows == 3        \* rows of the histories table
MaxRuns == 2        \* runs of the forward migration

(* Values of the program *)

NULL == 0                       \* SQL NULL / Python None in an integer column
Absent == -1                    \* a key that is not in the dict
None == <<"None">>              \* dict.get() of a missing string key
DeletedStamp == 1               \* a non-null deleted_at timestamp

HTTP_200_OK == 200
HTTP_201_CREATED == 201
HTTP_400_BAD_REQUEST == 400
HTTP_404_NOT_FOUND == 404
HTTP_500_INTERNAL_SERVER_ERROR == 500
DefaultPage == 1
DefaultPageSize == 10

Days == 0..MaxDay
Hours == 0..(SlotsPerDay - 1)
Patients == {1, 2}
Therapists == {1, 2}
StatusIds == {1, 2}
StatusNames == {"Completado", "Pendiente"}

----------------------------------------------------------------------------
(* Responses.  A method either returns a Response (raised = FALSE) or lets  *)
(* an exception escape to its caller (raised = TRUE).                       *)

Returned(st, err, cnt, res) ==
    [raised |-> FALSE, status |-> st, error |-> err, count |-> cnt, results |-> res,
     is_available |-> FALSE]

Raised(exc) ==
    [raised |-> TRUE, status |-> 0, error |-> exc, count |-> 0, results |-> <<>>,
     is_available |-> FALSE]

Ok(cnt, res) == [exc |-> "none", count |-> cnt, results |-> res]
Exc(e) == [exc |-> e, count |-> 0, results |-> <<>>]

NoRequest == [op |-> "none"]
NoResponse == Returned(0, "", 0, <<>>)

\* A caller that has not called yet; NoCallers: nobody calls concurrently.
IdleCaller ==
    [pc |-> "idle", date |-> 0, hour |-> 0, duration |-> 0, is_available |-> FALSE,
     after_other |-> FALSE, status |-> 0, appointment |-> NULL]
NoCallers == <<>>

----------------------------------------------------------------------------
(* Sequences and orderings *)

Range(s) == {s[i] : i \in DOMAIN s}

Perms(n) == {p \in [1..n -> 1..n] : \A i, j \in 1..n : p[i] = p[j] => i = j}

PosIn(order, x) == CHOOSE k \in DOMAIN order : order[k] = x

\* The rows of S as a sequence, sorted by the strict total order Before
\* (a set of pairs <<x, y>>: x comes before y).
SortedSeq(S, Before) ==
    [k \in 1..Cardinality(S) |->
        CHOOSE x \in S : Cardinality({y \in S : <<y, x>> \in Before}) = k - 1]

\* Python/ORM slice seq[start:end] with 0-based, non-negative bounds.
Slice(s, start, end) ==
    LET hi == IF end < Len(s) THEN end ELSE Len(s)
    IN  IF start >= hi THEN <<>> ELSE [k \in 1..(hi - start) |-> s[start + k]]

----------------------------------------------------------------------------
(* Dates.  A date string is <<>> (the empty string), <<"bad">> (text that   *)
(* is no ISO date) or <<"iso", day, tod>> (an ISO date, with a time part    *)
(* when tod # 0).  A datetime is [day, tod].                                *)

Truthy(s) == s # None /\ s # <<>>

fromisoformat(s) ==
    IF Len(s) = 3 /\ s[1] = "iso"
    THEN [exc |-> "none", day |-> s[2], tod |-> s[3]]
    ELSE [exc |-> "ValueError", day |-> 0, tod |-> 0]

DateOf(dt) == dt.day                                 \* datetime.date()
combine(day, tod) == [day |-> day, tod |-> tod]      \* datetime.combine
TimeMin == 0                                         \* dt_time.min
PlusDays(dt, n) == [day |-> dt.day + n, tod |-> dt.tod]
\* Faulty variant: the time of day runs on past midnight.
PlusMinutesUnwrapped(dt, n) == [day |-> dt.day, tod |-> dt.tod + n]

\* datetime + timedelta(minutes=n), n >= 0, in slots of the day
PlusMinutes(dt, n) ==
    [day |-> dt.day + ((dt.tod + n) \div SlotsPerDay),
     tod |-> (dt.tod + n) % SlotsPerDay]
TimeOf(dt) == dt.tod                                 \* datetime.time()
make_aware(dt) == dt                                 \* same instant, zone attached
\* A datetime given to a lookup on the calendar-date column is reduced to
\* its date in the configured zone.
DatePrep(dt) == dt.day

----------------------------------------------------------------------------
(* Filter bags and pagination dicts.  A filter bag is a dict: every key is  *)
(* either Absent / None (not in the dict) or carries a value.               *)

EmptyBag ==
    [appointment_date |-> Absent, appointment_status |-> Absent,
     patient |-> Absent, therapist |-> Absent,
     date |-> None, start_date |-> None, end_date |-> None]

\* Python truth value of the dict: a dict with no key is falsy.
BagTruthy(f) == f # EmptyBag

NoPagination == [page |-> Absent, page_size |-> Absent]
PaginationTruthy(p) == p # NoPagination

\* pagination.get('page', 1), pagination.get('page_size', 10)
GetPage(p) == IF p.page = Absent THEN DefaultPage ELSE p.page
GetPageSize(p) == IF p.page_size = Absent THEN DefaultPageSize ELSE p.page_size

----------------------------------------------------------------------------
(* Query sets over the Appointment table: sets of primary keys.             *)

ApptIds == DOMAIN appointments

\* Appointment.objects.filter(deleted_at__isnull=True)
NotDeleted == {i \in ApptIds : appointments[i].deleted_at = NULL}

FilterStatus(qs, v) == {i \in qs : appointments[i].appointment_status = v}
FilterPatient(qs, v) == {i \in qs : appointments[i].patient = v}
FilterTherapist(qs, v) == {i \in qs : appointments[i].therapist = v}
FilterDate(qs, d) == {i \in qs : appointments[i].appointment_date = d}
FilterDateLt(qs, d) == {i \in qs : appointments[i].appointment_date < d}
FilterDateGte(qs, d) == {i \in qs : appointments[i].appointment_date >= d}

\* The rows of a query set in the order the database returns them when the
\* query has no ORDER BY: dbOrder is the (unspecified) physical row order.
Unordered(qs, dbOrder) ==
    SortedSeq(qs, {<<x, y>> \in qs \X qs : PosIn(dbOrder, x) < PosIn(dbOrder, y)})

\* queryset.order_by('-appointment_date', '-hour'); ties in database order.
OrderByDateHourDesc(qs, dbOrder) ==
    SortedSeq(qs, {<<x, y>> \in qs \X qs :
        \/ appointments[x].appointment_date > appointments[y].appointment_date
        \/ /\ appointments[x].appointment_date = appointments[y].appointment_date
           /\ appointments[x].hour > appointments[y].hour
        \/ /\ appointments[x].appointment_date = appointments[y].appointment_date
           /\ appointments[x].hour = appointments[y].hour
           /\ PosIn(dbOrder, x) < PosIn(dbOrder, y)})

\* AppointmentStatus.objects.get(name=...)
GetStatusByName(name) ==
    LET ids == {i \in DOMAIN statuses : statuses[i].name = name}
    IN  IF ids = {} THEN [exc |-> "DoesNotExist", id |-> NULL]
        ELSE IF Cardinality(ids) = 1
             THEN [exc |-> "none", id |-> CHOOSE i \in ids : TRUE]
             ELSE [exc |-> "MultipleObjectsReturned", id |-> NULL]

----------------------------------------------------------------------------
(* AppointmentService.get_completed_appointments                            *)

\* Faulty variant: "estado Completada o fecha anterior" read as a disjunction.
CompletedStatusOrDate(qs, filters, completed_status_id) ==
    IF BagTruthy(filters) /\ filters.appointment_status # Absent
    THEN FilterStatus(qs, filters.appointment_status)
    ELSE FilterStatus(qs, completed_status_id) \cup FilterDateLt(qs, today)

\* Lines 285-296 and 350-357: the status filter, or the date fallback.
CompletedStatusFilter(qs, filters, completed_status_id) ==
    IF BagTruthy(filters) /\ filters.appointment_status # Absent
    THEN FilterStatus(qs, filters.appointment_status)
    ELSE IF completed_status_id # NULL
         THEN FilterStatus(qs, completed_status_id)
         ELSE FilterDateLt(qs, today)

\* Lines 298-301: patient and therapist are applied when present and truthy.
CompletedPersonFilter(qs, filters) ==
    LET q1 == IF filters.patient # Absent /\ filters.patient # 0
              THEN FilterPatient(qs, filters.patient) ELSE qs
    IN  IF filters.therapist # Absent /\ filters.therapist # 0
        THEN FilterTherapist(q1, filters.therapist) ELSE q1

NoWindow == [exc |-> "none", has_gte |-> FALSE, gte |-> combine(0, TimeMin),
             has_lt |-> FALSE, lt |-> combine(0, TimeMin)]
WindowExc(e) == [NoWindow EXCEPT !.exc = e]

\* Lines 303-349: the date window the filter bag asks for.
CompletedWindow(filters) ==
    IF Truthy(filters.date)
    THEN LET p == fromisoformat(filters.date)
             start_dt == combine(DateOf(p), TimeMin)
             end_dt == PlusDays(start_dt, 1)
         IN  IF p.exc # "none" THEN WindowExc(p.exc)
             ELSE [NoWindow EXCEPT !.has_gte = TRUE, !.gte = make_aware(start_dt),
                                   !.has_lt = TRUE, !.lt = make_aware(end_dt)]
    ELSE LET ps == fromisoformat(filters.start_date)
             pe == fromisoformat(filters.end_date)
             start_dt == combine(DateOf(ps), TimeMin)
             end_dt == combine(DateOf(pe) + 1, TimeMin)
         IN  IF Truthy(filters.start_date) /\ Truthy(filters.end_date)
             THEN IF ps.exc # "none" THEN WindowExc(ps.exc)
                  ELSE IF pe.exc # "none" THEN WindowExc(pe.exc)
                  ELSE [NoWindow EXCEPT !.has_gte = TRUE, !.gte = make_aware(start_dt),
                                        !.has_lt = TRUE, !.lt = make_aware(end_dt)]
             ELSE IF Truthy(filters.start_date)
             THEN IF ps.exc # "none" THEN WindowExc(ps.exc)
                  ELSE [NoWindow EXCEPT !.has_gte = TRUE, !.gte = make_aware(start_dt)]
             ELSE IF Truthy(filters.end_date)
             THEN IF pe.exc # "none" THEN WindowExc(pe.exc)
                  ELSE [NoWindow EXCEPT !.has_lt = TRUE, !.lt = make_aware(end_dt)]
             ELSE NoWindow

\* Faulty variant: the end of the window is included (__lte instead of __lt).
ApplyWindowClosed(qs, w) ==
    LET q1 == IF w.has_gte THEN FilterDateGte(qs, DatePrep(w.gte)) ELSE qs
    IN  IF w.has_lt THEN {i \in q1 : appointments[i].appointment_date <= DatePrep(w.lt)}
        ELSE q1

\* queryset.filter(appointment_date__gte=start_dt, appointment_date__lt=end_dt)
ApplyWindow(qs, w) ==
    LET q1 == IF w.has_gte THEN FilterDateGte(qs, DatePrep(w.gte)) ELSE qs
    IN  IF w.has_lt THEN FilterDateLt(q1, DatePrep(w.lt)) ELSE q1

\* Lines 282-357: the filtered query set, or the exception raised on the way.
CompletedQueryset(filters) ==
    LET st == GetStatusByName("Completado")
        completed_status_id == IF st.exc = "DoesNotExist" THEN NULL ELSE st.id
        q0 == CompletedStatusFilter(NotDeleted, filters, completed_status_id)
        w == CompletedWindow(filters)
    IN  IF st.exc = "MultipleObjectsReturned" THEN [exc |-> st.exc, qs |-> {}]
        ELSE IF ~BagTruthy(filters) THEN [exc |-> "none", qs |-> q0]
        ELSE IF w.exc # "none" THEN [exc |-> w.exc, qs |-> {}]
        ELSE [exc |-> "none", qs |-> ApplyWindow(CompletedPersonFilter(q0, filters), w)]

\* Faulty variant: the count is asked of the sliced query set (as in list_all).
CompletedCountAfterSlice(qs, page_rows) == Len(page_rows)

\* Line 359: total = queryset.count(), taken before the slice.
CompletedCount(qs, page_rows) == Cardinality(qs)

\* Lines 359-370: count, then order and slice when pagination is given.
CompletedPage(qs, pagination, dbOrder) ==
    LET page == GetPage(pagination)
        page_size == GetPageSize(pagination)
        start == (page - 1) * page_size
        end == start + page_size
        rows == IF PaginationTruthy(pagination)
                THEN Slice(OrderByDateHourDesc(qs, dbOrder), start, end)
                ELSE Unordered(qs, dbOrder)
    IN  IF PaginationTruthy(pagination) /\ (start < 0 \/ end < 0)
        THEN Exc("ValueError")        \* negative indexing is not supported
        ELSE Ok(CompletedCount(qs, rows), rows)

\* The body of the try block (lines 272-370).
CompletedBody(filters, pagination, dbOrder) ==
    LET q == CompletedQueryset(filters)
    IN  IF q.exc # "none" THEN Exc(q.exc)
        ELSE CompletedPage(q.qs, pagination, dbOrder)

\* Faulty variant: no handler, the exception reaches the caller.
CompletedPropagates(out) ==
    IF out.exc # "none"
    THEN Raised(out.exc)
    ELSE Returned(HTTP_200_OK, "", out.count, out.results)

\* Lines 372-376: `except Exception` turns whatever the body raised into a
\* 500 Response; nothing escapes to the caller.
CompletedBoundary(out) ==
    IF out.exc # "none"
    THEN Returned(HTTP_500_INTERNAL_SERVER_ERROR, out.exc, 0, <<>>)
    ELSE Returned(HTTP_200_OK, "", out.count, out.results)

get_completed_appointments(filters, pagination, dbOrder) ==
    CompletedBoundary(CompletedBody(filters, pagination, dbOrder))

----------------------------------------------------------------------------
(* AppointmentService.list_all                                              *)

\* Lines 189-200: every key that is in the bag is applied.
ListAllQueryset(filters) ==
    LET q1 == IF filters.appointment_date # Absent
              THEN FilterDate(NotDeleted, filters.appointment_date) ELSE NotDeleted
        q2 == IF filters.appointment_status # Absent
              THEN FilterStatus(q1, filters.appointment_status) ELSE q1
        q3 == IF filters.patient # Absent
              THEN FilterPatient(q2, filters.patient) ELSE q2
    IN  IF filters.therapist # Absent
        THEN FilterTherapist(q3, filters.therapist) ELSE q3

\* Line 212: queryset.count() is asked of the query set after line 208 has
\* replaced it by its slice, so it counts the rows of the page.
ListAllCount(qs, page_rows) == Len(page_rows)

\* Lines 202-214.
ListAllBody(filters, pagination, dbOrder) ==
    LET qs == ListAllQueryset(filters)
        page == GetPage(pagination)
        page_size == GetPageSize(pagination)
        start == (page - 1) * page_size
        end == start + page_size
        rows == IF PaginationTruthy(pagination)
                THEN Slice(Unordered(qs, dbOrder), start, end)
                ELSE Unordered(qs, dbOrder)
    IN  IF PaginationTruthy(pagination) /\ (start < 0 \/ end < 0)
        THEN Exc("ValueError")        \* negative indexing is not supported
        ELSE Ok(ListAllCount(qs, rows), rows)

\* Lines 216-220.
ListAllBoundary(out) ==
    IF out.exc # "none"
    THEN Returned(HTTP_500_INTERNAL_SERVER_ERROR, out.exc, 0, <<>>)
    ELSE Returned(HTTP_200_OK, "", out.count, out.results)

list_all(filters, pagination, dbOrder) ==
    ListAllBoundary(ListAllBody(filters, pagination, dbOrder))

----------------------------------------------------------------------------
(* AppointmentService.check_availability                                    *)

\* Faulty variant: the query finds no appointment.
NoConflicts(date, hour, duration) == {}

\* Lines 459-466: same date, not deleted, and neither hour >= end.time()
\* nor hour <= start.time().
ConflictingAppointments(date, hour, duration) ==
    LET start_datetime == combine(date, hour)
        end_datetime == PlusMinutes(start_datetime, duration)
        on_date == FilterDate(NotDeleted, date)
        not_after == {i \in on_date : ~(appointments[i].hour >= TimeOf(end_datetime))}
    IN  {i \in not_after : ~(appointments[i].hour <= TimeOf(start_datetime))}

\* Lines 468-473.
check_availability(date, hour, duration) ==
    LET conflicting_appointments == ConflictingAppointments(date, hour, duration)
        is_available == (conflicting_appointments = {})
    IN  [Returned(HTTP_200_OK, "",
                  IF ~is_available THEN Cardinality(conflicting_appointments) ELSE 0,
                  <<>>)
         EXCEPT !.is_available = is_available]

----------------------------------------------------------------------------
(* AppointmentService.get_by_date_range and get_pending_appointments        *)

\* Lines 235-247: appointment_date__range is inclusive at both ends.
DateRangeQueryset(start_date, end_date, filters) ==
    LET q0 == {i \in NotDeleted : /\ appointments[i].appointment_date >= start_date
                                  /\ appointments[i].appointment_date <= end_date}
        q1 == IF filters.appointment_status # Absent
              THEN FilterStatus(q0, filters.appointment_status) ELSE q0
        q2 == IF filters.patient # Absent
              THEN FilterPatient(q1, filters.patient) ELSE q1
    IN  IF filters.therapist # Absent
        THEN FilterTherapist(q2, filters.therapist) ELSE q2

\* Lines 249-259.
get_by_date_range(start_date, end_date, filters, dbOrder) ==
    LET qs == DateRangeQueryset(start_date, end_date, filters)
    IN  Returned(HTTP_200_OK, "", Cardinality(qs), Unordered(qs, dbOrder))

\* Faulty variant: the fallback keeps only the dates after today.
PendingAfterToday(qs, filters, pending_status_id) ==
    IF BagTruthy(filters) /\ filters.appointment_status # Absent
    THEN FilterStatus(qs, filters.appointment_status)
    ELSE IF pending_status_id # NULL
         THEN FilterStatus(qs, pending_status_id)
         ELSE {i \in qs : appointments[i].appointment_date > today}

\* Lines 402-426: the status filter, or the date fallback.
PendingStatusFilter(qs, filters, pending_status_id) ==
    IF BagTruthy(filters) /\ filters.appointment_status # Absent
    THEN FilterStatus(qs, filters.appointment_status)
    ELSE IF pending_status_id # NULL
         THEN FilterStatus(qs, pending_status_id)
         ELSE FilterDateGte(qs, today)

\* Lines 392-426.
PendingQueryset(filters) ==
    LET st == GetStatusByName("Pendiente")
        pending_status_id == IF st.exc = "DoesNotExist" THEN NULL ELSE st.id
        q0 == PendingStatusFilter(NotDeleted, filters, pending_status_id)
        q1 == IF filters.patient # Absent THEN FilterPatient(q0, filters.patient) ELSE q0
        q2 == IF filters.therapist # Absent
              THEN FilterTherapist(q1, filters.therapist) ELSE q1
    IN  IF st.exc = "MultipleObjectsReturned" THEN [exc |-> st.exc, qs |-> {}]
        ELSE [exc |-> "none", qs |-> q2]

\* Lines 428-438.
get_pending_appointments(filters, dbOrder) ==
    LET q == PendingQueryset(filters)
    IN  IF q.exc # "none"
        THEN Returned(HTTP_500_INTERNAL_SERVER_ERROR, q.exc, 0, <<>>)
        ELSE Returned(HTTP_200_OK, "", Cardinality(q.qs), Unordered(q.qs, dbOrder))

----------------------------------------------------------------------------
(* AppointmentService.create, get_by_id, update, delete                     *)

\* Faulty variant: the lookup without deleted_at__isnull=True.
GetAppointmentAnyState(appointment_id) ==
    IF appointment_id \in ApptIds THEN appointment_id ELSE NULL

\* Appointment.objects.get(id=appointment_id, deleted_at__isnull=True):
\* the row's id, or NULL for DoesNotExist.
GetLiveAppointment(appointment_id) ==
    IF appointment_id \in NotDeleted THEN appointment_id ELSE NULL

\* Ticket.objects.get(appointment=appointment): the ticket's id, or NULL.
GetTicketOf(tks, appointment_id) ==
    IF \E t \in DOMAIN tks : tks[t].appointment = appointment_id
    THEN CHOOSE t \in DOMAIN tks : tks[t].appointment = appointment_id
    ELSE NULL

\* Lines 84-92.
get_by_id(appointment_id) ==
    IF GetLiveAppointment(appointment_id) = NULL
    THEN Returned(HTTP_404_NOT_FOUND, "Cita no encontrada", 0, <<>>)
    ELSE Returned(HTTP_200_OK, "", 1, <<appointment_id>>)

\* Lines 35-41: the required keys are in the dict.
HasRequiredFields(data) ==
    /\ data.patient # Absent
    /\ data.appointment_date # Absent
    /\ data.hour # Absent

\* serializer.save() of a new Appointment: the inserted row.
NewAppointment(data) ==
    [patient |-> data.patient, therapist |-> data.therapist,
     appointment_date |-> data.appointment_date, hour |-> data.hour,
     appointment_status |-> data.appointment_status, deleted_at |-> NULL]

\* The post-save signal of Appointment: it adds the Ticket of the new
\* appointment, or (signal = "no_ticket") leaves the Ticket table as it is.
TicketSignal(tks, appointment_id, signal) ==
    IF signal = "ticket"
    THEN Append(tks, [appointment |-> appointment_id, ticket_number |-> Len(tks) + 1,
                      deleted_at |-> NULL])
    ELSE tks

\* @transaction.atomic (lines 22, 99): the writes of the call are kept when
\* the method returns, and undone when an exception leaves it.
Atomic(before, after, exception_leaves) ==
    IF exception_leaves THEN before ELSE after

\* serializer.save() of a partial update: the keys of data replace the
\* row's fields.
UpdatedAppointment(row, data) ==
    [row EXCEPT
        !.patient = IF data.patient # Absent THEN data.patient ELSE @,
        !.appointment_date =
            IF data.appointment_date # Absent THEN data.appointment_date ELSE @]

\* appointment.soft_delete(), ticket.soft_delete()
SoftDelete(row) == [row EXCEPT !.deleted_at = DeletedStamp]

\* Faulty variant: the ticket is left as it is.
KeepTicket(tks, appointment_id) == tks

\* Lines 156-160: the appointment's ticket, if there is one, is soft-deleted.
DeleteTicketOf(tks, appointment_id) ==
    LET t == GetTicketOf(tks, appointment_id)
    IN  IF t = NULL THEN tks ELSE [tks EXCEPT ![t] = SoftDelete(@)]

\* Lines 22-72.
Create(DataSet) ==
    /\ request = NoRequest
    /\ \E data \in DataSet, signal \in {"ticket", "no_ticket"} :
        LET id == Len(appointments) + 1
            saved == Append(appointments, NewAppointment(data))
            signalled == TicketSignal(tickets, id, signal)
        IN  /\ request' = [op |-> "create", data |-> data]
            /\ IF ~HasRequiredFields(data)
               THEN /\ response' = Returned(HTTP_400_BAD_REQUEST, "requerido", 0, <<>>)
                    /\ UNCHANGED <<appointments, tickets>>
               ELSE IF ~data.valid
               THEN /\ response' = Returned(HTTP_400_BAD_REQUEST, "Datos invalidos", 0, <<>>)
                    /\ UNCHANGED <<appointments, tickets>>
               ELSE /\ Len(appointments) < MaxAppts
                    /\ appointments' = Atomic(appointments, saved, FALSE)
                    /\ tickets' = Atomic(tickets, signalled, FALSE)
                    /\ response' =
                         IF GetTicketOf(signalled, id) # NULL
                         THEN Returned(HTTP_201_CREATED, "", 1, <<id>>)
                         ELSE Returned(HTTP_500_INTERNAL_SERVER_ERROR,
                                       "Error al crear el ticket automatico", 0, <<>>)
    /\ UNCHANGED <<statuses, today, migVars, callers>>

\* Lines 74-97.
GetById(Ids) ==
    /\ request = NoRequest
    /\ \E id \in Ids :
        /\ request' = [op |-> "get_by_id", id |-> id]
        /\ response' = get_by_id(id)
    /\ UNCHANGED <<storeVars, migVars, callers>>

\* Lines 99-139.
Update(Ids, DataSet) ==
    /\ request = NoRequest
    /\ \E id \in Ids, data \in DataSet :
        LET appointment == GetLiveAppointment(id)
        IN  /\ request' = [op |-> "update", id |-> id, data |-> data]
            /\ IF appointment = NULL
               THEN /\ response' = Returned(HTTP_404_NOT_FOUND, "Cita no encontrada", 0, <<>>)
                    /\ UNCHANGED appointments
               ELSE IF ~data.valid
               THEN /\ response' = Returned(HTTP_400_BAD_REQUEST, "Datos invalidos", 0, <<>>)
                    /\ UNCHANGED appointments
               ELSE /\ appointments' =
                         Atomic(appointments,
                                [appointments EXCEPT
                                    ![appointment] = UpdatedAppointment(@, data)],
                                FALSE)
                    /\ response' = Returned(HTTP_200_OK, "", 1, <<appointment>>)
    /\ UNCHANGED <<tickets, statuses, today, migVars, callers>>

\* Lines 141-175.
Delete(Ids) ==
    /\ request = NoRequest
    /\ \E id \in Ids :
        LET appointment == GetLiveAppointment(id)
        IN  /\ request' = [op |-> "delete", id |-> id]
            /\ IF appointment = NULL
               THEN /\ response' = Returned(HTTP_404_NOT_FOUND, "Cita no encontrada", 0, <<>>)
                    /\ UNCHANGED <<appointments, tickets>>
               ELSE /\ appointments' = [appointments EXCEPT ![appointment] = SoftDelete(@)]
                    /\ tickets' = DeleteTicketOf(tickets, appointment)
                    /\ response' = Returned(HTTP_200_OK, "", 0, <<>>)
    /\ UNCHANGED <<statuses, today, migVars, callers>>

GetByDateRange(Dates, Bags) ==
    /\ request = NoRequest
    /\ \E a \in Dates, b \in Dates, f \in Bags, o \in Perms(Len(appointments)) :
        /\ request' = [op |-> "get_by_date_range", start_date |-> a, end_date |-> b,
                       filters |-> f]
        /\ response' = get_by_date_range(a, b, f, o)
    /\ UNCHANGED <<storeVars, migVars, callers>>

GetPending(Bags) ==
    /\ request = NoRequest
    /\ \E f \in Bags, o \in Perms(Len(appointments)) :
        /\ request' = [op |-> "get_pending_appointments", filters |-> f]
        /\ response' = get_pending_appointments(f, o)
    /\ UNCHANGED <<storeVars, migVars, callers>>

----------------------------------------------------------------------------
(* States of the store.  Rows(P, D, H, S) are the Appointment rows whose    *)
(* fields range over the given sets; every such table is one that create,   *)
(* update and delete can build.                                             *)

Rows(P, T, D, H, S) ==
    [patient : P, therapist : T, appointment_date : D, hour : H,
     appointment_status : S, deleted_at : {NULL, DeletedStamp}]

Tables(R) == UNION {[1..n -> R] : n \in 0..MaxAppts}

\* One Ticket per Appointment (made by the post-save signal), soft-deleted
\* together with it.
TicketsOf(appts) ==
    [i \in DOMAIN appts |-> [appointment |-> i, ticket_number |-> i,
                             deleted_at |-> appts[i].deleted_at]]

StatusRow(n) == [name |-> n, deleted_at |-> NULL]

NoMigration ==
    /\ histories = <<>>
    /\ diu_types = <<>>
    /\ runs = 0
    /\ callers = NoCallers

StoreInit(R, StatusTables, Todays) ==
    /\ appointments \in Tables(R)
    /\ tickets = TicketsOf(appointments)
    /\ statuses \in StatusTables
    /\ today \in Todays
    /\ request = NoRequest
    /\ response = NoResponse
    /\ NoMigration

\* The caller has read the Response; the service is idle again.
Return ==
    /\ request # NoRequest
    /\ request' = NoRequest
    /\ response' = NoResponse
    /\ UNCHANGED <<storeVars, migVars, callers>>

----------------------------------------------------------------------------
(* The read operations as actions.                                          *)

GetCompleted(Bags, Paginations) ==
    /\ request = NoRequest
    /\ \E f \in Bags, p \in Paginations, o \in Perms(Len(appointments)) :
        /\ request' = [op |-> "get_completed_appointments",
                       filters |-> f, pagination |-> p]
        /\ response' = get_completed_appointments(f, p, o)
    /\ UNCHANGED <<storeVars, migVars, callers>>

ListAll(Bags, Paginations) ==
    /\ request = NoRequest
    /\ \E f \in Bags, p \in Paginations, o \in Perms(Len(appointments)) :
        /\ request' = [op |-> "list_all", filters |-> f, pagination |-> p]
        /\ response' = list_all(f, p, o)
    /\ UNCHANGED <<storeVars, migVars, callers>>

CheckAvailability(Dates, Starts, Durations) ==
    /\ request = NoRequest
    /\ \E d \in Dates, h \in Starts, n \in Durations :
        /\ request' = [op |-> "check_availability",
                       date |-> d, hour |-> h, duration |-> n]
        /\ response' = check_availability(d, h, n)
    /\ UNCHANGED <<storeVars, migVars, callers>>

----------------------------------------------------------------------------
(* Pagination: get_completed_appointments and list_all over every table of  *)
(* up to MaxAppts rows, with every pagination dict.                         *)

PageValues == (0..MaxPage) \cup {Absent}
PageSizeValues == (1..MaxPage) \cup {Absent}
Paginations == [page : PageValues, page_size : PageSizeValues]

PageBags ==
    {[EmptyBag EXCEPT !.appointment_status = s, !.patient = q] :
        s \in {Absent, 1}, q \in {Absent, 0} \cup Patients}

PageRows == Rows({1}, {1}, {0, 1}, {0}, {NULL, 1})

InitPage == StoreInit(PageRows, {<<>>, <<StatusRow("Completado")>>}, {1})

NextPage ==
    \/ GetCompleted(PageBags, Paginations)
    \/ ListAll(PageBags, Paginations)
    \/ Return

SpecPage == InitPage /\ [][NextPage]_vars

----------------------------------------------------------------------------
(* The completed view's status rule, over every small status table.         *)

StatusTables ==
    UNION {[1..n -> {StatusRow(x) : x \in StatusNames}] : n \in 0..2}
    \cup {<<[name |-> "Completado", deleted_at |-> DeletedStamp]>>}

StatusBags ==
    {[EmptyBag EXCEPT !.appointment_status = s, !.patient = q, !.therapist = t,
                      !.date = d] :
        s \in {Absent} \cup StatusIds, q \in {Absent, 0} \cup Patients,
        t \in {Absent, 1}, d \in {None, <<"iso", 0, 0>>}}

StatusRows == Rows({1}, {1}, {0, 1}, {0}, {NULL} \cup StatusIds)

InitStatus == StoreInit(StatusRows, StatusTables, {1})

NextStatus ==
    \/ GetCompleted(StatusBags, {NoPagination})
    \/ Return

SpecStatus == InitStatus /\ [][NextStatus]_vars

----------------------------------------------------------------------------
(* The completed view's date window, over every combination of date,        *)
(* start_date and end_date.                                                 *)

DateTexts ==
    {None, <<>>, <<"bad">>, <<"iso", 0, 1>>} \cup {<<"iso", d, 0>> : d \in Days}

WindowBags ==
    {[EmptyBag EXCEPT !.appointment_status = s, !.date = d, !.start_date = a,
                      !.end_date = b] :
        s \in {Absent, 1}, d \in DateTexts, a \in DateTexts, b \in DateTexts}

WindowRows == Rows({1}, {1}, Days, {0}, {1})

InitWindow == StoreInit(WindowRows, {<<>>}, {MaxDay})

NextWindow ==
    \/ GetCompleted(WindowBags, {NoPagination})
    \/ Return

SpecWindow == InitWindow /\ [][NextWindow]_vars

----------------------------------------------------------------------------
(* check_availability over every table of appointments on two days.         *)

AvailRows == Rows({1}, {1}, {0, 1}, Hours, {NULL})
Durations == 0..(SlotsPerDay + 1)

InitAvail == StoreInit(AvailRows, {<<>>}, {0})

NextAvail ==
    \/ CheckAvailability({0, 1}, Hours, Durations)
    \/ Return

SpecAvail == InitAvail /\ [][NextAvail]_vars

----------------------------------------------------------------------------
(* The completed and the pending view side by side, over every small        *)
(* status table.                                                            *)

FallbackBags ==
    {[EmptyBag EXCEPT !.appointment_status = s, !.patient = q] :
        s \in {Absent} \cup StatusIds, q \in {Absent, 2}}

FallbackRows == Rows({1, 2}, {1}, {0, 1}, {0}, StatusIds)

InitFallback == StoreInit(FallbackRows, StatusTables, {1})

NextFallback ==
    \/ GetCompleted(FallbackBags, {NoPagination})
    \/ GetPending(FallbackBags)
    \/ Return

SpecFallback == InitFallback /\ [][NextFallback]_vars

----------------------------------------------------------------------------
(* AppointmentStatusViewSet (views/appointment_status.py): get_queryset,    *)
(* destroy, restore, all_including_deleted.                                 *)

StatusPks == DOMAIN statuses

\* Faulty variant: the default query set keeps the soft-deleted rows.
AllStatusObjects == StatusPks

\* Lines 24-40: AppointmentStatus.objects.filter(deleted_at__isnull=True)
get_queryset == {k \in StatusPks : statuses[k].deleted_at = NULL}

\* Line 91: self.get_object() looks pk up in get_queryset(); NULL stands for
\* the Http404 it raises when the row is not there.
GetStatusObject(pk) == IF pk \in get_queryset THEN pk ELSE NULL

\* Line 95: instance.appointment_set.count(), the appointments (soft-deleted
\* or not) whose appointment_status is the row.
AppointmentSetCount(pk) ==
    Cardinality({i \in ApptIds : appointments[i].appointment_status = pk})

\* Faulty variant: the dependency check never refuses.
NeverInUse(pk) == FALSE

\* Line 96: appointments_count > 0
InUse(pk) == AppointmentSetCount(pk) > 0

\* Lines 86-122.  The Http404 of get_object and a database error of the
\* count are caught by `except Exception` and answered with a 500; the
\* "Unknown column" branch needs a schema without appointment_status_id,
\* which is not the schema the service methods query.
destroy(Pks) ==
    /\ request = NoRequest
    /\ \E pk \in Pks, db_error \in {"none", "OperationalError"} :
        LET instance == GetStatusObject(pk)
        IN  /\ request' = [op |-> "destroy", pk |-> pk, db_error |-> db_error]
            /\ IF instance = NULL
               THEN /\ response' = Returned(HTTP_500_INTERNAL_SERVER_ERROR, "Http404", 0, <<>>)
                    /\ UNCHANGED statuses
               ELSE IF db_error # "none"
               THEN /\ response' = Returned(HTTP_500_INTERNAL_SERVER_ERROR, db_error, 0, <<>>)
                    /\ UNCHANGED statuses
               ELSE IF InUse(instance)
               THEN /\ response' = Returned(HTTP_400_BAD_REQUEST, "No se puede eliminar",
                                            AppointmentSetCount(instance), <<>>)
                    /\ UNCHANGED statuses
               ELSE /\ statuses' = [statuses EXCEPT ![instance].deleted_at = DeletedStamp]
                    /\ response' = Returned(HTTP_200_OK, "", 0, <<>>)
    /\ UNCHANGED <<appointments, tickets, today, migVars, callers>>

\* Lines 124-155: AppointmentStatus.objects.get(pk=pk) sees deleted rows too.
restore(Pks) ==
    /\ request = NoRequest
    /\ \E pk \in Pks :
        /\ request' = [op |-> "restore", pk |-> pk]
        /\ IF pk \notin StatusPks
           THEN /\ response' = Returned(HTTP_404_NOT_FOUND, "Estado no encontrado", 0, <<>>)
                /\ UNCHANGED statuses
           ELSE IF statuses[pk].deleted_at = NULL
           THEN /\ response' = Returned(HTTP_400_BAD_REQUEST, "El estado no esta eliminado",
                                        0, <<>>)
                /\ UNCHANGED statuses
           ELSE /\ statuses' = [statuses EXCEPT ![pk].deleted_at = NULL]
                /\ response' = Returned(HTTP_200_OK, "", 1, <<pk>>)
    /\ UNCHANGED <<appointments, tickets, today, migVars, callers>>

\* Lines 157-174: AppointmentStatus.objects.all()
all_including_deleted ==
    /\ request = NoRequest
    /\ \E o \in Perms(Len(statuses)) :
        /\ request' = [op |-> "all_including_deleted"]
        /\ response' = Returned(HTTP_200_OK, "", Len(statuses), Unordered(StatusPks, o))
    /\ UNCHANGED <<storeVars, migVars, callers>>

\* The list endpoint of the view set: the rows of get_queryset().
StatusList ==
    /\ request = NoRequest
    /\ \E o \in Perms(Len(statuses)) :
        /\ request' = [op |-> "list"]
        /\ response' = Returned(HTTP_200_OK, "", Cardinality(get_queryset),
                                Unordered(get_queryset, o))
    /\ UNCHANGED <<storeVars, migVars, callers>>

\* Status tables as created: no row is soft-deleted yet.
FreshStatusTables == UNION {[1..n -> {StatusRow(x) : x \in StatusNames}] : n \in 0..2}

AdminPks == 1..3
AdminRows == Rows({1}, {1}, {0}, {0}, {NULL} \cup StatusIds)

InitAdmin == StoreInit(AdminRows, FreshStatusTables, {1})

NextAdmin ==
    \/ destroy(AdminPks)
    \/ restore(AdminPks)
    \/ all_including_deleted
    \/ StatusList
    \/ Return

SpecAdmin == InitAdmin /\ [][NextAdmin]_vars

----------------------------------------------------------------------------
(* Two callers, each running check_availability and then, when the answer   *)
(* is "available", create for the slot it asked about.  The two method      *)
(* calls of a caller are separate requests: calls of the other caller may   *)
(* run between them.                                                        *)

CallerIds == {1, 2}
Other(c) == 3 - c
RaceDurations == 1..SlotsPerDay

\* The data a caller sends to create for the slot it has checked.
SlotData(date, hour) ==
    [patient |-> 1, therapist |-> 1, appointment_date |-> date, hour |-> hour,
     appointment_status |-> NULL, valid |-> TRUE]

\* Caller c calls check_availability (lines 440-479) and keeps the answer.
CallerCheck(c) ==
    /\ callers[c].pc = "idle"
    /\ \E h \in Hours, n \in RaceDurations :
        LET answer == check_availability(0, h, n)
        IN  callers' = [callers EXCEPT ![c] =
                [@ EXCEPT !.pc = "checked", !.date = 0, !.hour = h, !.duration = n,
                          !.is_available = answer.is_available,
                          !.after_other = (callers[Other(c)].pc = "created")]]
    /\ UNCHANGED <<storeVars, request, response, migVars>>

\* Caller c, told that the slot is available, calls create (lines 22-72).
CallerCreate(c) ==
    /\ callers[c].pc = "checked"
    /\ callers[c].is_available
    /\ Len(appointments) < MaxAppts
    /\ \E signal \in {"ticket", "no_ticket"} :
        LET data == SlotData(callers[c].date, callers[c].hour)
            id == Len(appointments) + 1
            saved == Append(appointments, NewAppointment(data))
            signalled == TicketSignal(tickets, id, signal)
        IN  /\ HasRequiredFields(data) /\ data.valid
            /\ appointments' = Atomic(appointments, saved, FALSE)
            /\ tickets' = Atomic(tickets, signalled, FALSE)
            /\ callers' = [callers EXCEPT ![c] =
                    [@ EXCEPT !.pc = "created", !.appointment = id,
                              !.status = IF GetTicketOf(signalled, id) # NULL
                                         THEN HTTP_201_CREATED
                                         ELSE HTTP_500_INTERNAL_SERVER_ERROR]]
    /\ UNCHANGED <<statuses, today, request, response, migVars>>

InitRace ==
    /\ appointments = <<>>
    /\ tickets = <<>>
    /\ statuses = <<>>
    /\ today = 0
    /\ request = NoRequest
    /\ response = NoResponse
    /\ histories = <<>>
    /\ diu_types = <<>>
    /\ runs = 0
    /\ callers = [c \in CallerIds |-> IdleCaller]

NextRace == \E c \in CallerIds : CallerCheck(c) \/ CallerCreate(c)

SpecRace == InitRace /\ [][NextRace]_vars

----------------------------------------------------------------------------
(* The life of the store: from the empty tables, any sequence of calls.     *)

CrudIds == 1..(MaxAppts + 1)

CreateData ==
    [patient : {Absent} \cup Patients, therapist : {1},
     appointment_date : {Absent, 0, 1}, hour : {Absent, 1},
     appointment_status : {NULL}, valid : BOOLEAN]

UpdateData ==
    [patient : {Absent} \cup Patients, appointment_date : {Absent, 0, 1},
     valid : BOOLEAN]

CrudBags == {[EmptyBag EXCEPT !.patient = q] : q \in {Absent} \cup Patients}

Init ==
    /\ appointments = <<>>
    /\ tickets = <<>>
    /\ statuses = <<>>
    /\ today = 1
    /\ request = NoRequest
    /\ response = NoResponse
    /\ NoMigration

Next ==
    \/ Create(CreateData)
    \/ GetById(CrudIds)
    \/ Update(CrudIds, UpdateData)
    \/ Delete(CrudIds)
    \/ ListAll(CrudBags, {NoPagination})
    \/ GetByDateRange({0, 1}, CrudBags)
    \/ GetCompleted(CrudBags, {NoPagination})
    \/ GetPending(CrudBags)
    \/ CheckAvailability({0, 1}, Hours, {SlotsPerDay - 1})
    \/ Return

Spec == Init /\ [][Next]_vars

----------------------------------------------------------------------------
(* Migration 0011: migrate_diu_type_data.  A text is a sequence of          *)
(* characters; histories.diu_type_id is a text column (or SQL NULL).        *)

SqlNull == <<"NULL">>
EmptyText == <<>>

DigitChar(d) == <<"0", "1", "2", "3", "4", "5", "6", "7", "8", "9">>[d + 1]

\* The decimal text of a positive integer: what the text column holds after
\* an integer id is written into it.
RECURSIVE ToText(_)
ToText(n) ==
    IF n < 10 THEN <<DigitChar(n)>> ELSE ToText(n \div 10) \o <<DigitChar(n % 10)>>

\* Line 12: SELECT DISTINCT diu_type_id ... IS NOT NULL AND != ''
DistinctValues(hist) == {hist[i] : i \in DOMAIN hist} \ {SqlNull, EmptyText}

\* The sequences that list every element of S once: the orders in which
\* SELECT DISTINCT may return the values.
Orderings(S) ==
    {q \in [1..Cardinality(S) -> S] : \A i, j \in DOMAIN q : q[i] = q[j] => i = j}

\* Line 18: DIUType.objects.get_or_create(name=value)
DIUTypeIdOf(types, name) == CHOOSE i \in DOMAIN types : types[i] = name

GetOrCreate(types, name) ==
    IF \E i \in DOMAIN types : types[i] = name
    THEN [types |-> types, id |-> DIUTypeIdOf(types, name)]
    ELSE [types |-> Append(types, name), id |-> Len(types) + 1]

\* Lines 16-23: the DIUType table after the first k values.
RECURSIVE TypesAfter(_, _, _)
TypesAfter(types, unique_values, k) ==
    IF k = 0 THEN types
    ELSE GetOrCreate(TypesAfter(types, unique_values, k - 1), unique_values[k]).types

\* Line 19: diu_type_mapping[value]
Mapping(types, unique_values, k) ==
    GetOrCreate(TypesAfter(types, unique_values, k - 1), unique_values[k]).id

\* Lines 29-32: UPDATE histories SET diu_type_id = %s WHERE diu_type_id = %s
UpdateHistories(hist, new_id, old_value) ==
    [i \in DOMAIN hist |-> IF hist[i] = old_value THEN ToText(new_id) ELSE hist[i]]

\* Lines 26-34: the histories table after the UPDATEs of the first k values.
RECURSIVE HistoriesAfter(_, _, _, _)
HistoriesAfter(hist, types, unique_values, k) ==
    IF k = 0 THEN hist
    ELSE UpdateHistories(HistoriesAfter(hist, types, unique_values, k - 1),
                         Mapping(types, unique_values, k), unique_values[k])

\* Lines 5-34.
migrate_diu_type_data ==
    /\ runs < MaxRuns
    /\ \E unique_values \in Orderings(DistinctValues(histories)) :
        LET n == Len(unique_values)
        IN  /\ diu_types' = TypesAfter(diu_types, unique_values, n)
            /\ histories' = HistoriesAfter(histories, diu_types, unique_values, n)
    /\ runs' = runs + 1
    /\ UNCHANGED <<storeVars, request, response, callers>>

HistoryTexts == {SqlNull, EmptyText, <<"a">>, <<"b">>, <<"1">>, <<"2">>}

InitMig ==
    /\ histories \in UNION {[1..n -> HistoryTexts] : n \in 0..MaxRows}
    /\ diu_types \in {<<>>, <<<<"a">>>>}
    /\ runs = 0
    /\ callers = NoCallers
    /\ appointments = <<>>
    /\ tickets = <<>>
    /\ statuses = <<>>
    /\ today = 0
    /\ request = NoRequest
    /\ response = NoResponse

NextMig == migrate_diu_type_data

SpecMig == InitMig /\ [][NextMig]_vars

----------------------------------------------------------------------------
(* What the specification says a query returns, row by row.                 *)

Supplied(s) == s # None /\ s # <<>>
DayOfText(s) == s[2]

\* "appointment_status, patient, therapist: direct equality filters when
\* present"; without appointment_status the completed view uses the row
\* named "Completado", and the date fallback when there is none.
HasCompletado == \E k \in DOMAIN statuses : statuses[k].name = "Completado"
CompletadoId == CHOOSE k \in DOMAIN statuses : statuses[k].name = "Completado"

MatchesCompletedStatus(i, f) ==
    IF f.appointment_status # Absent
    THEN appointments[i].appointment_status = f.appointment_status
    ELSE IF HasCompletado
         THEN appointments[i].appointment_status = CompletadoId
         ELSE appointments[i].appointment_date < today

MatchesPersons(i, f) ==
    /\ f.patient \notin {Absent, 0} => appointments[i].patient = f.patient
    /\ f.therapist \notin {Absent, 0} => appointments[i].therapist = f.therapist

\* The precedence rule of the date window: date, else start_date and
\* end_date, else start_date, else end_date, else no window.
InWindow(i, f) ==
    LET d == appointments[i].appointment_date
    IN  IF Supplied(f.date)
        THEN DayOfText(f.date) <= d /\ d < DayOfText(f.date) + 1
        ELSE /\ Supplied(f.start_date) => DayOfText(f.start_date) <= d
             /\ Supplied(f.end_date) => d < DayOfText(f.end_date) + 1

MatchingCompleted(f) ==
    {i \in ApptIds : /\ appointments[i].deleted_at = NULL
                     /\ MatchesCompletedStatus(i, f)
                     /\ MatchesPersons(i, f)
                     /\ InWindow(i, f)}

MatchingListAll(f) ==
    {i \in ApptIds :
        /\ appointments[i].deleted_at = NULL
        /\ f.appointment_date # Absent => appointments[i].appointment_date = f.appointment_date
        /\ f.appointment_status # Absent => appointments[i].appointment_status = f.appointment_status
        /\ f.patient # Absent => appointments[i].patient = f.patient
        /\ f.therapist # Absent => appointments[i].therapist = f.therapist}

Succeeded == ~response.raised /\ response.status = HTTP_200_OK

----------------------------------------------------------------------------
(* Claims                                                                   *)

\* C1: get_completed_appointments returns as count the number of
\* non-deleted appointments matching the filters, whatever page and
\* page_size are, and with page >= 1 and page_size >= 1 it returns at most
\* page_size results.
C1_CompletedCountBeforeSlice ==
    (request.op = "get_completed_appointments" /\ Succeeded) =>
        /\ response.count = Cardinality(MatchingCompleted(request.filters))
        /\ (/\ PaginationTruthy(request.pagination)
            /\ GetPage(request.pagination) >= 1
            /\ GetPageSize(request.pagination) >= 1)
           => Len(response.results) <= GetPageSize(request.pagination)

\* C1 witness: a page of one row out of two matching rows.
C1_Witness ==
    /\ request.op = "get_completed_appointments"
    /\ Succeeded
    /\ request.pagination.page_size = 1
    /\ request.pagination.page = 2
    /\ response.count = 2
    /\ Len(response.results) = 1

\* C2: with pagination supplied, list_all returns as count the number of
\* non-deleted appointments matching the filters, not the number of rows
\* of the returned page.
C2_ListAllCountBeforeSlice ==
    (/\ request.op = "list_all"
     /\ Succeeded
     /\ PaginationTruthy(request.pagination))
    => response.count = Cardinality(MatchingListAll(request.filters))

\* C3: with no appointment_status key in the bag and a resolvable
\* "Completado" row, get_completed_appointments returns exactly the
\* non-deleted appointments whose status is that row (and that pass the
\* other supplied filters); the fallback appointment_date < today plays no
\* part.
C3_CompletadoRowDecides ==
    (/\ request.op = "get_completed_appointments"
     /\ request.filters.appointment_status = Absent
     /\ GetStatusByName("Completado").exc = "none")
    => /\ Succeeded
       /\ Range(response.results) =
            {i \in ApptIds :
                /\ appointments[i].deleted_at = NULL
                /\ appointments[i].appointment_status = CompletadoId
                /\ MatchesPersons(i, request.filters)
                /\ InWindow(i, request.filters)}

\* C3 witness: a Completado appointment dated today or later is returned
\* while an appointment of another status dated before today is not.
C3_Witness ==
    /\ request.op = "get_completed_appointments"
    /\ request.filters.appointment_status = Absent
    /\ GetStatusByName("Completado").exc = "none"
    /\ Succeeded
    /\ \E i \in Range(response.results) : appointments[i].appointment_date >= today
    /\ \E j \in NotDeleted \ Range(response.results) :
            appointments[j].appointment_date < today

IsIso(s) == Len(s) = 3 /\ s[1] = "iso"

\* The texts the precedence rule reads are ISO dates.
ConsultedTextsOk(f) ==
    IF Supplied(f.date) THEN IsIso(f.date)
    ELSE /\ Supplied(f.start_date) => IsIso(f.start_date)
         /\ Supplied(f.end_date) => IsIso(f.end_date)

\* C4: the date window of get_completed_appointments follows the
\* precedence rule: date = D gives [D 00:00, D+1 00:00) whatever start_date
\* and end_date are; else start_date and end_date give
\* [start 00:00, end+1 00:00); else start_date alone gives [start 00:00, +inf);
\* else end_date alone gives (-inf, end+1 00:00); else there is no window.
C4_WindowPrecedence ==
    (/\ request.op = "get_completed_appointments"
     /\ ConsultedTextsOk(request.filters))
    => /\ Succeeded
       /\ Range(response.results) = MatchingCompleted(request.filters)

\* C4 witness: date = D with other start_date and end_date; the appointment
\* on day D is returned and the one on day D+1 is not.
C4_Witness ==
    /\ request.op = "get_completed_appointments"
    /\ Succeeded
    /\ IsIso(request.filters.date)
    /\ IsIso(request.filters.start_date)
    /\ IsIso(request.filters.end_date)
    /\ DayOfText(request.filters.start_date) > DayOfText(request.filters.date)
    /\ \E i \in Range(response.results) :
            appointments[i].appointment_date = DayOfText(request.filters.date)
    /\ \E j \in NotDeleted \ Range(response.results) :
            appointments[j].appointment_date = DayOfText(request.filters.date) + 1

\* The non-deleted appointments on the requested date whose hour lies
\* strictly inside the requested interval (start, start + duration).
InsideInterval(date, start, duration) ==
    {i \in ApptIds :
        /\ appointments[i].deleted_at = NULL
        /\ appointments[i].appointment_date = date
        /\ start < appointments[i].hour
        /\ appointments[i].hour < start + duration}

\* C5: check_availability(date, start, duration) counts as conflicting
\* exactly the non-deleted appointments on that date with
\* start < hour < start + duration; is_available is true iff there is none,
\* and the conflicting count is their number (0 when available).
C5_ConflictsAreInsideInterval ==
    request.op = "check_availability" =>
        LET inside == InsideInterval(request.date, request.hour, request.duration)
        IN  /\ Succeeded
            /\ response.is_available = (inside = {})
            /\ response.count = Cardinality(inside)

\* The soft-deleted appointments.
Deleted == {i \in ApptIds : appointments[i].deleted_at # NULL}

\* The rows in primary-key order.
PkOrder == [k \in 1..Len(appointments) |-> k]

\* Appointment i is in no answer of the read operations.
AbsentFromReads(i) ==
    /\ get_by_id(i).status = HTTP_404_NOT_FOUND
    /\ \A f \in CrudBags :
        /\ i \notin Range(list_all(f, NoPagination, PkOrder).results)
        /\ i \notin Range(get_completed_appointments(f, NoPagination, PkOrder).results)
        /\ i \notin Range(get_pending_appointments(f, PkOrder).results)
        /\ \A a, b \in {0, 1} :
                i \notin Range(get_by_date_range(a, b, f, PkOrder).results)
    /\ \A h \in Hours, n \in Durations :
        i \notin ConflictingAppointments(appointments[i].appointment_date, h, n)

\* C6: once delete has soft-deleted an appointment, in every later state
\* the row is still there with its deletion timestamp, it is absent from
\* get_by_id, list_all, get_by_date_range, get_completed_appointments,
\* get_pending_appointments and check_availability, and its Ticket (if it
\* has one) is soft-deleted too; delete succeeds also without a Ticket.
C6_SoftDeletedStaysHidden ==
    [][/\ \A i \in Deleted : i \in Deleted'
       /\ (request'.op = "delete" /\ request'.id \in NotDeleted)
             => (response'.status = HTTP_200_OK /\ request'.id \in Deleted')
       /\ appointments' # appointments =>
             \A i \in Deleted' :
                /\ AbsentFromReads(i)'
                /\ GetTicketOf(tickets', i) # NULL
                     => tickets'[GetTicketOf(tickets', i)].deleted_at # NULL]_vars

\* C6 witness: delete has answered 200 for an appointment that has a
\* Ticket; both carry a deletion timestamp.
C6_Witness ==
    /\ request.op = "delete"
    /\ response.status = HTTP_200_OK
    /\ request.id \in Deleted
    /\ GetTicketOf(tickets, request.id) # NULL
    /\ tickets[GetTicketOf(tickets, request.id)].deleted_at # NULL
    /\ NotDeleted # {}

\* C7: the forward transform is idempotent: a second run right after the
\* first creates no DIUType row and changes the diu_type_id of no history
\* row.
C7_SecondRunChangesNothing ==
    [][(runs = 1 /\ runs' = 2) =>
            (diu_types' = diu_types /\ histories' = histories)]_vars

\* C8: create persists an Appointment and its Ticket together or not at
\* all: every persisted Appointment has its Ticket, and a create that
\* answers with an error leaves no new Appointment behind.
C8_AppointmentAndTicketTogether ==
    /\ \A i \in ApptIds : GetTicketOf(tickets, i) # NULL
    /\ (request.op = "create" /\ response.status # HTTP_201_CREATED)
         => Len(appointments) = Len(tickets)

\* C9: update of an id that does not exist or is soft-deleted answers 404,
\* whatever the data, and changes no record; update of a non-deleted
\* appointment with invalid data answers 400 and changes no record.
C9_UpdateNotFoundBeforeValidation ==
    [][(request.op = "none" /\ request'.op = "update") =>
        IF request'.id \notin NotDeleted
        THEN /\ response'.status = HTTP_404_NOT_FOUND
             /\ appointments' = appointments
             /\ tickets' = tickets
        ELSE ~request'.data.valid =>
                /\ response'.status = HTTP_400_BAD_REQUEST
                /\ appointments' = appointments
                /\ tickets' = tickets]_vars

\* C9 witness: invalid data sent to a soft-deleted appointment: 404.
C9_Witness ==
    /\ request.op = "update"
    /\ request.id \in Deleted
    /\ ~request.data.valid
    /\ response.status = HTTP_404_NOT_FOUND

\* C10 as claimed: an unparsable date text that get_completed_appointments
\* reads escapes to the caller as a ValueError; no Response is returned.
C10_ValueErrorPropagates ==
    (/\ request.op = "get_completed_appointments"
     /\ ~ConsultedTextsOk(request.filters))
    => response.raised /\ response.error = "ValueError"

\* C10 as amended: an unparsable date text that get_completed_appointments
\* reads is caught at the operation boundary and reported as a 500
\* Response; it is neither a success nor an exception that reaches the
\* caller.
C10_ValueErrorReportedAs500 ==
    (/\ request.op = "get_completed_appointments"
     /\ ~ConsultedTextsOk(request.filters))
    => /\ ~response.raised
       /\ response.status = HTTP_500_INTERNAL_SERVER_ERROR

\* C10 witness: end_date alone, unparsable, answered by a 500 Response.
C10_Witness ==
    /\ request.op = "get_completed_appointments"
    /\ ~Supplied(request.filters.date)
    /\ ~Supplied(request.filters.start_date)
    /\ request.filters.end_date = <<"bad">>
    /\ ~response.raised
    /\ response.status = HTTP_500_INTERNAL_SERVER_ERROR
    /\ response.error = "ValueError"

\* The pending view applies patient and therapist whenever the key is in
\* the bag.
MatchesPendingPersons(i, f) ==
    /\ f.patient # Absent => appointments[i].patient = f.patient
    /\ f.therapist # Absent => appointments[i].therapist = f.therapist

LiveStatuses == {k \in DOMAIN statuses : statuses[k].deleted_at = NULL}

\* C12: through any sequence of destroy and restore calls, the default
\* query set holds exactly the AppointmentStatus rows whose deletion
\* timestamp is null, all_including_deleted holds every row, restore of a
\* soft-deleted row puts it back into the default query set, and restore of
\* a row that is not deleted answers with an error and changes nothing.
C12_SoftDeleteRecoverable ==
    [][/\ Len(statuses') = Len(statuses)
       /\ request'.op = "list" => Range(response'.results) = LiveStatuses'
       /\ request'.op = "all_including_deleted"
            => Range(response'.results) = DOMAIN statuses'
       /\ (request'.op = "restore" /\ request'.pk \in DOMAIN statuses)
            => IF request'.pk \in LiveStatuses
               THEN /\ response'.status = HTTP_400_BAD_REQUEST
                    /\ statuses' = statuses
               ELSE /\ response'.status = HTTP_200_OK
                    /\ LiveStatuses' = LiveStatuses \cup {request'.pk}]_vars

\* C12 witness: a row that destroy had soft-deleted is back in the default
\* query set after restore.
C12_Witness ==
    /\ request.op = "restore"
    /\ response.status = HTTP_200_OK
    /\ request.pk \in LiveStatuses
    /\ LiveStatuses # DOMAIN statuses

\* Caller c was told "available", its create answered 201, and its
\* requested interval ends within the day.
Booked(c) ==
    /\ callers[c].pc = "created"
    /\ callers[c].is_available
    /\ callers[c].status = HTTP_201_CREATED

EndsWithinDay(c) == callers[c].hour + callers[c].duration < SlotsPerDay

\* The appointment the other caller created lies strictly inside the
\* interval caller c asked about.
OtherInsideIntervalOf(c) ==
    callers[Other(c)].appointment \in
        InsideInterval(callers[c].date, callers[c].hour, callers[c].duration)

\* C13: check_availability followed by create is not atomic: two callers
\* can both be told "available" and both create, leaving an appointment of
\* one strictly inside the interval the other asked about.  This comes from
\* the interleaving alone: it never happens to a caller whose check ran
\* after the other caller's create (its check then reports the conflict).
C13_ConflictOnlyByInterleaving ==
    \A c \in DOMAIN callers :
        (/\ Booked(c) /\ Booked(Other(c))
         /\ EndsWithinDay(c)
         /\ OtherInsideIntervalOf(c))
        => ~callers[c].after_other

\* C13 witness: both callers were told "available", both creates answered
\* 201, and the appointment of caller 1 lies strictly inside the interval
\* caller 2 asked about, which check_availability now reports as taken.
C13_Witness ==
    /\ callers # NoCallers
    /\ Booked(1) /\ Booked(2)
    /\ EndsWithinDay(2)
    /\ OtherInsideIntervalOf(2)
    /\ ~check_availability(callers[2].date, callers[2].hour,
                           callers[2].duration).is_available

\* Status row k is the appointment_status of some appointment.
Referenced(k) == \E i \in DOMAIN appointments : appointments[i].appointment_status = k

WrapsAtMidnight(hour, duration) ==
    /\ hour + duration >= SlotsPerDay
    /\ duration <= SlotsPerDay

\* C15: check_availability compares times of day only: for a request whose
\* start + duration passes midnight (duration at most 24 hours) it answers
\* is_available = true with conflicting count 0 whatever appointments the
\* date has, also when some are strictly after the start on that date.
C15_WrapAlwaysAvailable ==
    (/\ request.op = "check_availability"
     /\ WrapsAtMidnight(request.hour, request.duration))
    => /\ TimeOf(PlusMinutes(combine(request.date, request.hour), request.duration))
            <= request.hour
       /\ Succeeded
       /\ response.is_available
       /\ response.count = 0

\* C15 witness: the answer "available, 0 conflicts" for a request that
\* passes midnight, on a date that has a non-deleted appointment strictly
\* after the requested start.
C15_Witness ==
    /\ request.op = "check_availability"
    /\ WrapsAtMidnight(request.hour, request.duration)
    /\ response.is_available
    /\ response.count = 0
    /\ \E i \in NotDeleted :
            /\ appointments[i].appointment_date = request.date
            /\ appointments[i].hour > request.hour

\* The rows of the histories table that carry a free-text value.
WithText(hist) == {i \in DOMAIN hist : hist[i] \notin {SqlNull, EmptyText}}

\* C16: after one run of the forward transform every history row whose
\* text was v holds the id of the DIUType row named v, and rows that had
\* different texts hold different ids, also when a text is the decimal
\* numeral of an id given to another value during the run.
C16_RowsReferToTheirOwnType ==
    [][(runs = 0 /\ runs' = 1) =>
        /\ \A i \in WithText(histories) :
                \E k \in DOMAIN diu_types' :
                    /\ diu_types'[k] = histories[i]
                    /\ histories'[i] = ToText(k)
        /\ \A i, j \in WithText(histories) :
                histories[i] # histories[j] => histories'[i] # histories'[j]]_vars

====
